---- MODULE Spec2Model ----
(***************************************************************************)
(* Model of the oscamp sources:                                            *)
(*   - simple_hv (arceos/exercises/simple_hv/src/main.rs): the VM          *)
(*     entry/exit loop of the hypervisor and its trap dispatcher;          *)
(*   - EarlyAllocator (arceos/modules/bump_allocator/src/lib.rs): the      *)
(*     double-ended bump allocator.                                        *)
(*                                                                         *)
(* The specifications share the variables: Spec runs the hypervisor under  *)
(* any guest, SpecTwice runs its start with the translation root installed *)
(* more than once, SpecDemo runs it under the demo guest, SpecEA runs the  *)
(* allocator.                                                              *)
(*                                                                         *)
(* Number representation.  TLC integers are 32 bits wide, the machine's    *)
(* are 64.  A 64-bit address is the record [pn, off] of its page number    *)
(* (bits 12 and up) and its offset in the page (bits 0..11):               *)
(* value = pn * 4096 + off.  The hgatp register is the record [mode, ppn]  *)
(* of its fields (bits 60..63 and bits 0..43).  The page numbers used are  *)
(* far below 2^52, so no address addition of the hypervisor model wraps.   *)
(* The allocator model computes in usize arithmetic of UsizeBits bits,     *)
(* which wraps on overflow as a build without overflow checks does (the    *)
(* release profile).                                                       *)
(***************************************************************************)
EXTENDS Integers, Sequences, FiniteSets, TLC

VARIABLES
    pc,          \* position of main: the next operation it executes
    halt,        \* "" while running, else the panic message that stopped it
    ctx,         \* VmCpuRegisters: [gprs, hstatus, sstatus, sepc]
    uspace,      \* AddrSpace: [root, pt, mem]
    csr_hstatus, \* live hstatus register
    csr_sstatus, \* live sstatus register
    scause,      \* live scause register (trap cause)
    stval,       \* live stval register (trap value)
    hgatp,       \* live hgatp register
    tlb_synced,  \* TRUE iff hfence.gvma ran since the last write of hgatp
    ret,         \* what vmexit_handler returned since the last VM entry:
                 \* "none", "true" or "false"
    entries,     \* number of executions of _run_guest
    calls,       \* number of calls made of prepare_guest_context,
                 \* prepare_vm_pgtable and vmexit_handler
    guest,       \* the guest program of the demo: [prog, x]
    ea,          \* EarlyAllocator: [start, end, bytes_pos, pages_pos, count]
    ea_state,    \* "new" before init, "ready" after it, "panicked" after a panic
    allocs,      \* byte allocations handed out: [ptr, size, live], live until
                 \* deallocated
    pages        \* page allocations handed out

hvVars == <<pc, halt, ctx, uspace, csr_hstatus, csr_sstatus, scause, stval,
            hgatp, tlb_synced, ret, entries, calls, guest>>
eaVars == <<ea, ea_state, allocs, pages>>
vars == <<pc, halt, ctx, uspace, csr_hstatus, csr_sstatus, scause, stval,
          hgatp, tlb_synced, ret, entries, calls, guest, ea, ea_state, allocs,
          pages>>

(***************************************************************************)
(* Bounds of the model.                                                    *)
(***************************************************************************)
\* _run_guest is executed at most this many times in a run of the model
MaxEntries == 3
\* number of consecutive unbacked guest pages the guest may touch
NumFaultPages == 2

(***************************************************************************)
(* Constants of the program.                                               *)
(***************************************************************************)
PAGE_SIZE_4K == 4096
\* 0x8020_0000 = 0x80200 * 4096
VM_ENTRY == [pn |-> 524800, off |-> 0]
\* 0x6688, expected in a0 by the Reset arm
RESET_A0 == 26248
\* 0x1234, expected in a1 by the Reset arm
RESET_A1 == 4660
\* 0x1234, written to a1 by the IllegalInstruction arm
ILLEGAL_MAGIC == 4660
\* 0x6688usize, written to guest memory by the LoadGuestPageFault arm
magic == 26248
\* 8usize << 60: the translation mode of hgatp
HGATP_MODE == 8
\* hstatus.SPV (bit 7) and hstatus.SPVP (bit 8), sstatus.SPP (bit 8)
HSTATUS_SPV_BIT == 7
HSTATUS_SPVP_BIT == 8
SSTATUS_SPP_BIT == 8

GprIndex == {"A0", "A1", "A2", "A7"}
MappingFlagsRWU == {"READ", "WRITE", "USER"}
MappingFlagsImage == {"READ", "WRITE", "EXECUTE", "USER"}

\* extension ids in a7 as the firmware-call decoder classifies them
EID_UNKNOWN == 0
EID_RESET == 1
EID_UNIMPLEMENTED == 2

(***************************************************************************)
(* Address arithmetic (VirtAddr / usize).                                  *)
(***************************************************************************)
AddrAdd(a, n) ==
    LET s == a.off + n
    IN  [pn |-> a.pn + (s \div PAGE_SIZE_4K), off |-> s % PAGE_SIZE_4K]

align_down_4k(a) == [pn |-> a.pn, off |-> 0]

\* bit b of v set, all other bits as in v
SetBit(v, b) == IF (v \div (2 ^ b)) % 2 = 1 THEN v ELSE v + 2 ^ b

\* byte i (0 = least significant) of v: the in-memory bytes of a usize are
\* little-endian on riscv64
RECURSIVE ByteOf(_, _)
ByteOf(v, i) == IF i = 0 THEN v % 256 ELSE ByteOf(v \div 256, i - 1)

\* core::slice::from_raw_parts(&magic as *const usize as *const u8, size_of::<usize>())
UsizeBytes(v) == [i \in 1..8 |-> ByteOf(v, i - 1)]

(***************************************************************************)
(* AddrSpace (axmm).                                                       *)
(***************************************************************************)
\* map_alloc(va, size, flags, populate): back every page of [va, va + size)
\* that is not yet backed, zero-filled, with the flags asked for
map_alloc(as, va, size, flags) ==
    LET new == {va.pn + k : k \in 0..((size \div PAGE_SIZE_4K) - 1)} \ DOMAIN as.pt
    IN  [as EXCEPT !.pt = [p \in DOMAIN as.pt \cup new |->
                              IF p \in DOMAIN as.pt THEN as.pt[p] ELSE flags]]

\* number of leading bytes of [addr, addr + n) that lie in backed pages
RECURSIVE BackedPrefix(_, _, _)
BackedPrefix(as, addr, n) ==
    IF n = 0 \/ addr.pn \notin DOMAIN as.pt THEN 0
    ELSE 1 + BackedPrefix(as, AddrAdd(addr, 1), n - 1)

\* write(addr, buf): copy buf page by page up to the first unbacked page
write(as, addr, buf) ==
    LET k == BackedPrefix(as, addr, Len(buf))
        dst == {AddrAdd(addr, i - 1) : i \in 1..k}
        idx(a) == CHOOSE i \in 1..k : AddrAdd(addr, i - 1) = a
    IN  [as EXCEPT !.mem = [a \in DOMAIN as.mem \cup dst |->
                               IF a \in dst THEN buf[idx(a)] ELSE as.mem[a]]]

\* a byte of backed memory: what was written last, 0 in a zero-filled page
ReadByte(as, a) == IF a \in DOMAIN as.mem THEN as.mem[a] ELSE 0

(***************************************************************************)
(* SbiMessage::from_regs, on the a-registers.                              *)
(***************************************************************************)
from_regs(a_regs) ==
    IF a_regs["A7"] = EID_RESET THEN "Reset"
    ELSE IF a_regs["A7"] = EID_UNIMPLEMENTED THEN "Unimplemented"
    ELSE "None"

(***************************************************************************)
(* What the guest and the hardware can present.                            *)
(***************************************************************************)
\* the unbacked guest pages the guest touches: the pages right below the
\* image, so that an access at the end of the last one runs into a page the
\* loader backed
FaultPns == {VM_ENTRY.pn - k : k \in 1..NumFaultPages}
\* aligned, unaligned, last aligned 8 bytes of a page, last 4 bytes of a page
FaultOffs == {0, 3, 4088, 4092}
FaultAddrs == {[pn |-> p, off |-> o] : p \in FaultPns, o \in FaultOffs}

\* a guest program counter: the entry, and the last instruction of its page
GuestPcs == {VM_ENTRY, AddrAdd(VM_ENTRY, PAGE_SIZE_4K - 4)}

GuestGprs ==
    {[r \in GprIndex |-> CASE r = "A0" -> a[1] [] r = "A1" -> a[2]
                           [] r = "A2" -> 5 [] r = "A7" -> e] :
        a \in {<<0, 0>>, <<RESET_A0, RESET_A1>>, <<RESET_A1, RESET_A0>>,
               <<RESET_A0, 0>>},
        e \in {EID_UNKNOWN, EID_RESET, EID_UNIMPLEMENTED}}

NullAddr == [pn |-> 0, off |-> 0]

\* the traps the hardware can raise: a guest page fault is raised only for
\* an address whose page is not backed
Traps(as) ==
    {[cause |-> c, tval |-> NullAddr] :
        c \in {"VirtualSupervisorEnvCall", "IllegalInstruction", "Breakpoint"}}
    \cup {[cause |-> "LoadGuestPageFault", tval |-> a] :
            a \in {x \in FaultAddrs : x.pn \notin DOMAIN as.pt}}
    \cup {[cause |-> c, tval |-> a] :
            c \in {"StoreGuestPageFault", "InstructionGuestPageFault"},
            a \in {x \in FaultAddrs : x.pn \notin DOMAIN as.pt /\ x.off = 0}}

BootHstatus == {0, 2 ^ 6 + 2 ^ HSTATUS_SPV_BIT}
BootSstatus == {2, 2 + 2 ^ SSTATUS_SPP_BIT}
\* physical page number of the second-stage root table
RootPns == {525312, 525313}

(***************************************************************************)
(* main and the functions it calls.                                        *)
(***************************************************************************)
NoCalls == [prepare_guest_context |-> 0, prepare_vm_pgtable |-> 0,
            vmexit_handler |-> 0]

\* no demo guest: the guest is arbitrary
NoGuest == [prog |-> <<>>, x |-> NullAddr]

EaNew == [start |-> 0, end |-> 0, bytes_pos |-> 0, pages_pos |-> 0, count |-> 0]

EaIdle ==
    /\ ea = EaNew
    /\ ea_state = "new"
    /\ allocs = <<>>
    /\ pages = <<>>

HvBoot ==
    /\ pc = "load_vm_image"
    /\ halt = ""
    /\ ctx = [gprs |-> [r \in GprIndex |-> 0], hstatus |-> 0, sstatus |-> 0,
              sepc |-> NullAddr]
    /\ \E r \in RootPns :
          uspace = [root |-> [pn |-> r, off |-> 0], pt |-> <<>>, mem |-> <<>>]
    /\ csr_hstatus \in BootHstatus
    /\ csr_sstatus \in BootSstatus
    /\ scause = "none"
    /\ stval = NullAddr
    /\ hgatp = [mode |-> 0, ppn |-> 0]
    /\ tlb_synced = FALSE
    /\ ret = "none"
    /\ entries = 0
    /\ calls = NoCalls

HvInit == HvBoot /\ guest = NoGuest

Init == HvInit /\ EaIdle

\* main, lines 43-46: the image is mapped at the entry, or main panics
load_vm_image ==
    /\ pc = "load_vm_image"
    /\ \/ /\ uspace' = [uspace EXCEPT !.pt = [p \in {VM_ENTRY.pn} |-> MappingFlagsImage]]
          /\ pc' = "prepare_guest_context"
          /\ halt' = halt
       \/ /\ uspace' = uspace
          /\ pc' = "halted"
          /\ halt' = "Cannot load app!"
    /\ UNCHANGED <<ctx, csr_hstatus, csr_sstatus, scause, stval, hgatp,
                   tlb_synced, ret, entries, calls, guest>>
    /\ UNCHANGED eaVars

\* mutant: CSR.hstatus.write_value(..) left out
prepare_guest_context_NoWriteBack ==
    /\ pc = "prepare_guest_context"
    /\ LET hs == SetBit(SetBit(csr_hstatus, HSTATUS_SPV_BIT), HSTATUS_SPVP_BIT)
       IN  /\ csr_hstatus' = csr_hstatus
           /\ ctx' = [ctx EXCEPT !.hstatus = hs,
                                 !.sstatus = SetBit(csr_sstatus, SSTATUS_SPP_BIT),
                                 !.sepc = VM_ENTRY]
    /\ pc' = "csrw_hgatp"
    /\ calls' = [calls EXCEPT !.prepare_guest_context = @ + 1]
    /\ UNCHANGED <<halt, uspace, csr_sstatus, scause, stval, hgatp, tlb_synced,
                   ret, entries, guest>>
    /\ UNCHANGED eaVars

\* main, line 50, and prepare_guest_context, lines 159-176
prepare_guest_context ==
    /\ pc = "prepare_guest_context"
    /\ LET hs == SetBit(SetBit(csr_hstatus, HSTATUS_SPV_BIT), HSTATUS_SPVP_BIT)
       IN  /\ csr_hstatus' = hs
           /\ ctx' = [ctx EXCEPT !.hstatus = hs,
                                 !.sstatus = SetBit(csr_sstatus, SSTATUS_SPP_BIT),
                                 !.sepc = VM_ENTRY]
    /\ pc' = "csrw_hgatp"
    /\ calls' = [calls EXCEPT !.prepare_guest_context = @ + 1]
    /\ UNCHANGED <<halt, uspace, csr_sstatus, scause, stval, hgatp, tlb_synced,
                   ret, entries, guest>>
    /\ UNCHANGED eaVars

\* 8usize << 60 | usize::from(ept_root) >> 12
HgatpValue(ept_root) == [mode |-> HGATP_MODE, ppn |-> ept_root.pn]

\* mutant: the register read, the value added to it and written back
csrw_hgatp_Accumulate ==
    /\ pc = "csrw_hgatp"
    /\ hgatp' = [mode |-> (hgatp.mode + HGATP_MODE) % 16,
                 ppn |-> hgatp.ppn + uspace.root.pn]
    /\ tlb_synced' = FALSE
    /\ pc' = "hfence_gvma_all"
    /\ UNCHANGED <<halt, ctx, uspace, csr_hstatus, csr_sstatus, scause, stval,
                   ret, entries, calls, guest>>
    /\ UNCHANGED eaVars

\* prepare_vm_pgtable, first instruction: csrw hgatp
csrw_hgatp ==
    /\ pc = "csrw_hgatp"
    /\ hgatp' = HgatpValue(uspace.root)
    /\ tlb_synced' = FALSE
    /\ pc' = "hfence_gvma_all"
    /\ UNCHANGED <<halt, ctx, uspace, csr_hstatus, csr_sstatus, scause, stval,
                   ret, entries, calls, guest>>
    /\ UNCHANGED eaVars

\* mutant: prepare_vm_pgtable without the hfence.gvma
hfence_gvma_all_Skipped ==
    /\ pc = "hfence_gvma_all"
    /\ pc' = "_run_guest"
    /\ calls' = [calls EXCEPT !.prepare_vm_pgtable = @ + 1]
    /\ UNCHANGED <<halt, ctx, uspace, csr_hstatus, csr_sstatus, scause, stval,
                   hgatp, tlb_synced, ret, entries, guest>>
    /\ UNCHANGED eaVars

\* prepare_vm_pgtable, second instruction: hfence.gvma; the call returns
hfence_gvma_all ==
    /\ pc = "hfence_gvma_all"
    /\ tlb_synced' = TRUE
    /\ pc' = "_run_guest"
    /\ calls' = [calls EXCEPT !.prepare_vm_pgtable = @ + 1]
    /\ UNCHANGED <<halt, ctx, uspace, csr_hstatus, csr_sstatus, scause, stval,
                   hgatp, ret, entries, guest>>
    /\ UNCHANGED eaVars

\* run_guest, line 75: the guest runs from ctx until it traps; the trap
\* leaves the guest's registers and program counter in ctx and its cause and
\* value in scause and stval
_run_guest ==
    /\ pc = "_run_guest"
    /\ entries < MaxEntries
    /\ entries' = entries + 1
    /\ \E g \in GuestGprs, p \in GuestPcs, t \in Traps(uspace) :
          /\ ctx' = [ctx EXCEPT !.gprs = g, !.sepc = p]
          /\ scause' = t.cause
          /\ stval' = t.tval
    /\ ret' = "none"
    /\ pc' = "vmexit_handler"
    /\ UNCHANGED <<halt, uspace, csr_hstatus, csr_sstatus, hgatp, tlb_synced,
                   calls, guest>>
    /\ UNCHANGED eaVars

Panic(msg) ==
    /\ pc' = "halted"
    /\ halt' = msg

Return(v) ==
    /\ pc' = "while"
    /\ ret' = v
    /\ halt' = halt

\* mutant: the Reset arm without assert_eq!(a1, 0x1234)
VirtualSupervisorEnvCall_NoA1Check ==
    /\ scause = "VirtualSupervisorEnvCall"
    /\ LET sbi_msg == from_regs(ctx.gprs)
           a0 == ctx.gprs["A0"]
       IN  IF sbi_msg = "Reset"
           THEN IF a0 # RESET_A0
                THEN Panic("assert_eq!(a0, 0x6688)") /\ ret' = ret
                ELSE Return("true")
           ELSE IF sbi_msg = "None"
                THEN Panic("bad sbi message! ") /\ ret' = ret
                ELSE Panic("not yet implemented") /\ ret' = ret
    /\ UNCHANGED <<ctx, uspace>>

\* vmexit_handler, lines 87-106
VirtualSupervisorEnvCall ==
    /\ scause = "VirtualSupervisorEnvCall"
    /\ LET sbi_msg == from_regs(ctx.gprs)
           a0 == ctx.gprs["A0"]
           a1 == ctx.gprs["A1"]
       IN  IF sbi_msg = "Reset"
           THEN IF a0 # RESET_A0
                THEN Panic("assert_eq!(a0, 0x6688)") /\ ret' = ret
                ELSE IF a1 # RESET_A1
                     THEN Panic("assert_eq!(a1, 0x1234)") /\ ret' = ret
                     ELSE Return("true")
           ELSE IF sbi_msg = "None"
                THEN Panic("bad sbi message! ") /\ ret' = ret
                ELSE Panic("not yet implemented") /\ ret' = ret
    /\ UNCHANGED <<ctx, uspace>>

\* mutant: the sentinel written to a0, as the arm's comment says
IllegalInstruction_SetA0 ==
    /\ scause = "IllegalInstruction"
    /\ ctx' = [ctx EXCEPT !.sepc = AddrAdd(ctx.sepc, 4),
                          !.gprs = [ctx.gprs EXCEPT !["A0"] = ILLEGAL_MAGIC]]
    /\ uspace' = uspace
    /\ Return("false")

\* vmexit_handler, lines 107-120
IllegalInstruction ==
    /\ scause = "IllegalInstruction"
    /\ ctx' = [ctx EXCEPT !.sepc = AddrAdd(ctx.sepc, 4),
                          !.gprs = [ctx.gprs EXCEPT !["A1"] = ILLEGAL_MAGIC]]
    /\ uspace' = uspace
    /\ Return("false")

\* mutant: the page after the faulting one backed as well
LoadGuestPageFault_TwoPages ==
    /\ scause = "LoadGuestPageFault"
    /\ LET addr == stval
           mapped == map_alloc(uspace, align_down_4k(addr), 2 * PAGE_SIZE_4K,
                               MappingFlagsRWU)
       IN  uspace' = write(mapped, addr, UsizeBytes(magic))
    /\ ctx' = ctx
    /\ Return("false")

\* vmexit_handler, lines 121-146
LoadGuestPageFault ==
    /\ scause = "LoadGuestPageFault"
    /\ LET addr == stval
           mapped == map_alloc(uspace, align_down_4k(addr), PAGE_SIZE_4K,
                               MappingFlagsRWU)
       IN  uspace' = write(mapped, addr, UsizeBytes(magic))
    /\ ctx' = ctx
    /\ Return("false")

\* mutant: the default arm skipping the trapping instruction and resuming
UnhandledTrap_Skip ==
    /\ scause \notin {"VirtualSupervisorEnvCall", "IllegalInstruction",
                      "LoadGuestPageFault"}
    /\ ctx' = [ctx EXCEPT !.sepc = AddrAdd(@, 4)]
    /\ UNCHANGED uspace
    /\ Return("false")

\* vmexit_handler, lines 147-154
UnhandledTrap ==
    /\ scause \notin {"VirtualSupervisorEnvCall", "IllegalInstruction",
                      "LoadGuestPageFault"}
    /\ Panic("Unhandled trap")
    /\ UNCHANGED <<ctx, uspace, ret>>

vmexit_handler ==
    /\ pc = "vmexit_handler"
    /\ \/ VirtualSupervisorEnvCall
       \/ IllegalInstruction
       \/ LoadGuestPageFault
       \/ UnhandledTrap
    /\ calls' = [calls EXCEPT !.vmexit_handler = @ + 1]
    /\ UNCHANGED <<csr_hstatus, csr_sstatus, scause, stval, hgatp, tlb_synced,
                   entries, guest>>
    /\ UNCHANGED eaVars

\* mutant: while run_guest(..) {}, the negation lost
while_run_guest_Inverted ==
    /\ pc = "while"
    /\ IF ret = "false"
       THEN Panic("Hypervisor ok!")
       ELSE pc' = "_run_guest" /\ halt' = halt
    /\ UNCHANGED <<ctx, uspace, csr_hstatus, csr_sstatus, scause, stval, hgatp,
                   tlb_synced, ret, entries, calls, guest>>
    /\ UNCHANGED eaVars

\* mutant: loop { run_guest(..); }, the returned value ignored
while_run_guest_Forever ==
    /\ pc = "while"
    /\ pc' = "_run_guest"
    /\ UNCHANGED <<halt, ctx, uspace, csr_hstatus, csr_sstatus, scause, stval,
                   hgatp, tlb_synced, ret, entries, calls, guest>>
    /\ UNCHANGED eaVars

\* mutant: the preparation moved into the loop body
while_run_guest_Reprepare ==
    /\ pc = "while"
    /\ IF ret = "true"
       THEN Panic("Hypervisor ok!")
       ELSE pc' = "prepare_guest_context" /\ halt' = halt
    /\ UNCHANGED <<ctx, uspace, csr_hstatus, csr_sstatus, scause, stval, hgatp,
                   tlb_synced, ret, entries, calls, guest>>
    /\ UNCHANGED eaVars

\* main, lines 57-59: while !run_guest(..) {}  panic!("Hypervisor ok!")
while_run_guest ==
    /\ pc = "while"
    /\ IF ret = "true"
       THEN Panic("Hypervisor ok!")
       ELSE pc' = "_run_guest" /\ halt' = halt
    /\ UNCHANGED <<ctx, uspace, csr_hstatus, csr_sstatus, scause, stval, hgatp,
                   tlb_synced, ret, entries, calls, guest>>
    /\ UNCHANGED eaVars

Next ==
    \/ load_vm_image
    \/ prepare_guest_context
    \/ csrw_hgatp
    \/ hfence_gvma_all
    \/ _run_guest
    \/ vmexit_handler
    \/ while_run_guest

Spec == Init /\ [][Next]_vars

(***************************************************************************)
(* The hypervisor under the demo guest: a program that loads 8 bytes from  *)
(* the address x into a0 and executes one illegal instruction, in either   *)
(* order, and then issues the shutdown call.  Instruction i of the program *)
(* lies at VM_ENTRY + 4 * (i - 1); the guest's registers are those of ctx.  *)
(***************************************************************************)
DemoProgs == {<<"load", "illegal", "ecall">>, <<"illegal", "load", "ecall">>}

\* the addresses the demo guest loads from: unbacked, and the 8 bytes read
\* do not reach into the guest image
DemoAddrs == {a \in FaultAddrs : AddrAdd(a, 7).pn # VM_ENTRY.pn}

\* a register value of 2^31 or more: differs from every value the handlers
\* compare a register with
WideValue == -1

\* ld: the usize at x, little-endian, of backed memory
LoadUsize(as, x) ==
    LET b(i) == ReadByte(as, AddrAdd(x, i))
    IN  IF b(3) < 128 /\ \A i \in 4..7 : b(i) = 0
        THEN b(0) + 256 * b(1) + 65536 * b(2) + 16777216 * b(3)
        ELSE WideValue

\* the guest running from instruction ip with registers g until it traps:
\* a load of which some byte lies in an unbacked page raises
\* LoadGuestPageFault with the address of the first such byte
RECURSIVE GuestRun(_, _, _)
GuestRun(as, g, ip) ==
    LET ins == guest.prog[ip]
        sepc == AddrAdd(VM_ENTRY, 4 * (ip - 1))
    IN  CASE ins = "load" ->
               LET k == BackedPrefix(as, guest.x, 8)
               IN  IF k < 8
                   THEN [gprs |-> g, sepc |-> sepc,
                         cause |-> "LoadGuestPageFault",
                         tval |-> AddrAdd(guest.x, k)]
                   ELSE GuestRun(as, [g EXCEPT !["A0"] = LoadUsize(as, guest.x)],
                                 ip + 1)
          [] ins = "illegal" ->
               [gprs |-> g, sepc |-> sepc, cause |-> "IllegalInstruction",
                tval |-> NullAddr]
          [] ins = "ecall" ->
               [gprs |-> [g EXCEPT !["A7"] = EID_RESET], sepc |-> sepc,
                cause |-> "VirtualSupervisorEnvCall", tval |-> NullAddr]

\* run_guest, line 74, under the demo guest: it resumes at ctx.sepc
_run_guest_demo ==
    /\ pc = "_run_guest"
    /\ entries' = entries + 1
    /\ LET t == GuestRun(uspace, ctx.gprs, (ctx.sepc.off \div 4) + 1)
       IN  /\ ctx' = [ctx EXCEPT !.gprs = t.gprs, !.sepc = t.sepc]
           /\ scause' = t.cause
           /\ stval' = t.tval
    /\ ret' = "none"
    /\ pc' = "vmexit_handler"
    /\ UNCHANGED <<halt, uspace, csr_hstatus, csr_sstatus, hgatp, tlb_synced,
                   calls, guest>>
    /\ UNCHANGED eaVars

InitDemo ==
    /\ HvBoot
    /\ guest \in {[prog |-> pr, x |-> a] : pr \in DemoProgs, a \in DemoAddrs}
    /\ EaIdle

NextDemo ==
    \/ load_vm_image
    \/ prepare_guest_context
    \/ csrw_hgatp
    \/ hfence_gvma_all
    \/ _run_guest_demo
    \/ vmexit_handler
    \/ while_run_guest

SpecDemo == InitDemo /\ [][NextDemo]_vars

(***************************************************************************)
(* The translation root installed more than once: main as it is, had it    *)
(* called prepare_vm_pgtable(ept_root) again right after the call          *)
(* returned, up to the first VM entry.                                     *)
(***************************************************************************)
\* prepare_vm_pgtable is called at most this many times
MaxInstalls == 2

\* main, line 54, once more: the same call with the same root
call_prepare_vm_pgtable_again ==
    /\ pc = "_run_guest"
    /\ entries = 0
    /\ calls.prepare_vm_pgtable < MaxInstalls
    /\ pc' = "csrw_hgatp"
    /\ UNCHANGED <<halt, ctx, uspace, csr_hstatus, csr_sstatus, scause, stval,
                   hgatp, tlb_synced, ret, entries, calls, guest>>
    /\ UNCHANGED eaVars

NextTwice ==
    \/ load_vm_image
    \/ prepare_guest_context
    \/ csrw_hgatp
    \/ hfence_gvma_all
    \/ call_prepare_vm_pgtable_again
    \/ _run_guest

SpecTwice == Init /\ [][NextTwice]_vars

(***************************************************************************)
(* EarlyAllocator<PAGE_SIZE>.                                              *)
(***************************************************************************)
\* width of usize in the allocator model
UsizeBits == 6
UsizeMod == 2 ^ UsizeBits
\* at most this many byte allocations are made in a run of the model
MaxAllocs == 3
\* at most this many page allocations are made in a run of the model
MaxPageAllocs == 2
\* the const generic parameter PAGE_SIZE
PAGE_SIZE == 8

Wrap(v) == v % UsizeMod

\* x & !(align - 1), align a power of two
AlignDownMask(x, align) == x - (x % align)

\* 1 << n: without overflow checks the shift amount is taken modulo the width
Shl1(n) == 2 ^ (n % UsizeBits)

InitStarts == {8, 16}
InitSizes == {16, 32}
\* Layout of a request: empty, small and unaligned, and more than any region
\* holds with the alignment of a usize
Layouts == {[size |-> 0, align |-> 1], [size |-> 3, align |-> 1],
            [size |-> 48, align |-> 8]}
NumPagesArgs == {0, 1, 5}
AlignPow2Args == {0, 4}

\* the hypervisor does not run in the allocator's specification
HvIdle ==
    /\ pc = "load_vm_image"
    /\ halt = ""
    /\ ctx = [gprs |-> [r \in GprIndex |-> 0], hstatus |-> 0, sstatus |-> 0,
              sepc |-> NullAddr]
    /\ uspace = [root |-> NullAddr, pt |-> <<>>, mem |-> <<>>]
    /\ csr_hstatus = 0
    /\ csr_sstatus = 0
    /\ scause = "none"
    /\ stval = NullAddr
    /\ hgatp = [mode |-> 0, ppn |-> 0]
    /\ tlb_synced = FALSE
    /\ ret = "none"
    /\ entries = 0
    /\ calls = NoCalls
    /\ guest = NoGuest

\* EarlyAllocator::new()
InitEA == HvIdle /\ EaIdle

\* BaseAllocator::init(start, size)
init ==
    /\ ea_state = "new"
    /\ \E start \in InitStarts, size \in InitSizes :
          ea' = [start |-> start, end |-> Wrap(start + size),
                 bytes_pos |-> start, pages_pos |-> Wrap(start + size),
                 count |-> 0]
    /\ ea_state' = "ready"
    /\ UNCHANGED <<allocs, pages>>
    /\ UNCHANGED hvVars

\* ByteAllocator::alloc(layout): NonNull::new(0).unwrap() panics
alloc ==
    /\ ea_state = "ready"
    /\ Len(allocs) < MaxAllocs
    /\ \E layout \in Layouts :
          LET current_bytes_pos == ea.bytes_pos
          IN  /\ ea' = [ea EXCEPT !.bytes_pos = Wrap(ea.bytes_pos + layout.size),
                                  !.count = Wrap(ea.count + 1)]
              /\ IF current_bytes_pos = 0
                 THEN ea_state' = "panicked" /\ allocs' = allocs
                 ELSE /\ ea_state' = ea_state
                      /\ allocs' = Append(allocs, [ptr |-> current_bytes_pos,
                                                   size |-> layout.size,
                                                   align |-> layout.align,
                                                   live |-> TRUE])
    /\ UNCHANGED pages
    /\ UNCHANGED hvVars

\* mutant: dealloc that never frees the bytes-used area
dealloc_NoReset ==
    /\ ea_state = "ready"
    /\ \E i \in {j \in 1..Len(allocs) : allocs[j].live} :
          allocs' = [allocs EXCEPT ![i].live = FALSE]
    /\ ea' = [ea EXCEPT !.count = Wrap(ea.count - 1)]
    /\ UNCHANGED <<ea_state, pages>>
    /\ UNCHANGED hvVars

\* ByteAllocator::dealloc(pos, layout), of an allocation that is outstanding
dealloc ==
    /\ ea_state = "ready"
    /\ \E i \in {j \in 1..Len(allocs) : allocs[j].live} :
          allocs' = [allocs EXCEPT ![i].live = FALSE]
    /\ LET count == Wrap(ea.count - 1)
       IN  ea' = [ea EXCEPT !.count = count,
                            !.bytes_pos = IF count = 0 THEN ea.start ELSE @]
    /\ UNCHANGED <<ea_state, pages>>
    /\ UNCHANGED hvVars

used_bytes == Wrap(ea.bytes_pos - ea.start)

\* the byte allocations that are outstanding
Live == {i \in 1..Len(allocs) : allocs[i].live}

\* PageAllocator::alloc_pages(num_pages, align_pow2)
alloc_pages ==
    /\ ea_state = "ready"
    /\ Len(pages) < MaxPageAllocs
    /\ \E num_pages \in NumPagesArgs, align_pow2 \in AlignPow2Args :
          LET align == Shl1(align_pow2)
              pos == AlignDownMask(Wrap(ea.pages_pos - Wrap(num_pages * PAGE_SIZE)),
                                   align)
          IN  /\ ea' = [ea EXCEPT !.pages_pos = pos]
              /\ pages' = Append(pages, [pos |-> pos, num_pages |-> num_pages])
    /\ UNCHANGED <<ea_state, allocs>>
    /\ UNCHANGED hvVars

\* PageAllocator::dealloc_pages(pos, num_pages): "Do nothing"
dealloc_pages ==
    /\ ea_state = "ready"
    /\ \E i \in 1..Len(pages) : TRUE
    /\ UNCHANGED eaVars
    /\ UNCHANGED hvVars

used_pages == Wrap(ea.end - ea.pages_pos) \div PAGE_SIZE

NextEA ==
    \/ init
    \/ alloc
    \/ dealloc
    \/ alloc_pages
    \/ dealloc_pages

SpecEA == InitEA /\ [][NextEA]_vars

(***************************************************************************)
(* Properties of the hypervisor (under Spec).                              *)
(***************************************************************************)
FatalMessages == {"assert_eq!(a0, 0x6688)", "assert_eq!(a1, 0x1234)",
                  "bad sbi message! ", "not yet implemented", "Unhandled trap"}

\* the dispatcher is about to service a trap of cause c
Servicing(c) == pc = "vmexit_handler" /\ scause = c

\* the dispatcher has just serviced a trap of cause c and returned
Serviced(c) == pc = "while" /\ scause = c

\* C1: on an EnvironmentCall trap the dispatcher returns true exactly when
\* the request decodes to Reset with a0 = 0x6688 and a1 = 0x1234, and the run
\* loop then ends with "Hypervisor ok!"; in every other case (other
\* arguments, another request, an undecodable call) it stops with a fatal
\* panic; it never returns false.
C1_EcallTerminatesOrFatal ==
    /\ [][Servicing("VirtualSupervisorEnvCall") =>
            IF /\ from_regs(ctx.gprs) = "Reset"
               /\ ctx.gprs["A0"] = 26248
               /\ ctx.gprs["A1"] = 4660
            THEN pc' = "while" /\ ret' = "true" /\ halt' = ""
            ELSE pc' = "halted" /\ halt' \in FatalMessages /\ ret' = "none"]_vars
    /\ [][(pc = "while" /\ ret = "true") =>
            (pc' = "halted" /\ halt' = "Hypervisor ok!")]_vars

\* C1 witness: the loop has ended with the success report after a Reset
\* call with the two sentinels
C1_Witness ==
    /\ halt = "Hypervisor ok!"
    /\ scause = "VirtualSupervisorEnvCall"
    /\ ctx.gprs["A0"] = 26248
    /\ ctx.gprs["A1"] = 4660

C3_PageFaultBacksOnePage ==
    [][Servicing("LoadGuestPageFault") =>
         /\ DOMAIN uspace'.pt = DOMAIN uspace.pt \cup {stval.pn}
         /\ uspace'.pt[stval.pn] = {"READ", "WRITE", "USER"}
         /\ \A p \in DOMAIN uspace.pt : uspace'.pt[p] = uspace.pt[p]
         /\ uspace'.root = uspace.root
         /\ ctx' = ctx
         /\ pc' = "while" /\ ret' = "false" /\ halt' = ""]_vars

\* C3 witness: a fault at an unaligned address has been serviced and its
\* page, which was not backed by the loader, is backed
C3_Witness ==
    /\ Serviced("LoadGuestPageFault")
    /\ stval.off = 3
    /\ stval.pn \in DOMAIN uspace.pt
    /\ stval.pn # VM_ENTRY.pn

\* C4 (as claimed): after a (load) GuestPageFault at a is serviced, all 8
\* bytes at a..a+8 lie in backed memory and read back as 0x6688.
C4_EightBytesBackedAndSentinel ==
    Serviced("LoadGuestPageFault") =>
        \A i \in 0..7 :
            /\ AddrAdd(stval, i).pn \in DOMAIN uspace.pt
            /\ ReadByte(uspace, AddrAdd(stval, i)) = ByteOf(26248, i)

\* C5 (as claimed): every illegal-instruction trap and every guest page
\* fault, whichever access raised it, is serviced by returning false without
\* stopping the process.
C5_AllGuestPageFaultsRecoverable ==
    [][(pc = "vmexit_handler" /\
        scause \in {"IllegalInstruction", "LoadGuestPageFault",
                    "StoreGuestPageFault", "InstructionGuestPageFault"}) =>
         (pc' = "while" /\ ret' = "false" /\ halt' = "")]_vars

\* C5 (amended): every illegal-instruction trap and every guest page fault
\* raised by a load is serviced by changing the context or the address
\* space and returning false, and the run loop then re-enters the guest
\* without stopping the process.
C5_IllegalAndLoadFaultRecoverable ==
    /\ [][(pc = "vmexit_handler" /\
           scause \in {"IllegalInstruction", "LoadGuestPageFault"}) =>
            /\ pc' = "while" /\ ret' = "false" /\ halt' = ""
            /\ (ctx' # ctx \/ uspace' # uspace)]_vars
    /\ [][(pc = "while" /\ ret = "false") =>
            (pc' = "_run_guest" /\ halt' = "")]_vars

\* C5 witness: the loop is back at the VM entry after servicing a page fault
C5_Witness ==
    /\ pc = "_run_guest"
    /\ scause = "LoadGuestPageFault"
    /\ ret = "false"
    /\ entries = 1

\* C6: once the dispatcher has returned true or the process has stopped,
\* _run_guest is not executed again.
C6_NoEntryAfterTermination ==
    [][(ret = "true" \/ halt # "") => entries' = entries]_vars

\* C6 witness: the loop has ended with the success report while the model
\* would still allow VM entries
C6_Witness ==
    /\ halt = "Hypervisor ok!"
    /\ ret = "true"
    /\ entries < MaxEntries

\* C7: hgatp is written (mode 8, the root's page number) before the
\* hfence.gvma, the hfence.gvma precedes the first VM entry, and hgatp does
\* not change after the first VM entry.
C7_RootThenFenceThenEntry ==
    /\ [](tlb_synced => hgatp = [mode |-> 8, ppn |-> uspace.root.pn])
    /\ []((pc = "_run_guest" \/ entries > 0) =>
            (tlb_synced /\ hgatp = [mode |-> 8, ppn |-> uspace.root.pn]))
    /\ [][entries > 0 => hgatp' = hgatp]_vars

\* C7 witness: the guest has been entered with the root installed and the
\* translation cache invalidated
C7_Witness ==
    /\ entries = 1
    /\ tlb_synced
    /\ hgatp.mode = 8
    /\ hgatp.ppn \in RootPns

\* C11: installing the translation root twice in immediate succession with
\* the same root leaves the same hgatp value (mode 8, the root's page
\* number) and an invalidated translation cache as installing it once, and
\* the second installation changes nothing of the address space or of the
\* guest context (checked under SpecTwice).
C11_InstallIdempotent ==
    /\ []((pc = "_run_guest" /\ calls.prepare_vm_pgtable >= 1) =>
            (hgatp = [mode |-> 8, ppn |-> uspace.root.pn] /\ tlb_synced))
    /\ [][calls.prepare_vm_pgtable >= 1 =>
            (uspace' = uspace /\ ctx.hstatus' = ctx.hstatus /\
             csr_hstatus' = csr_hstatus)]_vars

\* C11 witness: the guest is about to be entered after two installations
C11_Witness ==
    /\ pc = "_run_guest"
    /\ calls.prepare_vm_pgtable = 2
    /\ hgatp = [mode |-> 8, ppn |-> uspace.root.pn]
    /\ tlb_synced

\* C12: on a trap whose cause is none of VirtualSupervisorEnvCall,
\* IllegalInstruction and LoadGuestPageFault the dispatcher stops the system
\* with "Unhandled trap": it returns neither true nor false, and the guest
\* register context and the address space are left as they were.
C12_OtherCausesStopUnmodified ==
    [][(pc = "vmexit_handler" /\
        scause \notin {"VirtualSupervisorEnvCall", "IllegalInstruction",
                       "LoadGuestPageFault"}) =>
       (/\ pc' = "halted"
        /\ halt' = "Unhandled trap"
        /\ ret = "none" /\ ret' = "none"
        /\ ctx' = ctx
        /\ uspace' = uspace)]_vars

\* C12 witness: the system stopped on a store guest page fault
C12_Witness ==
    /\ pc = "halted"
    /\ halt = "Unhandled trap"
    /\ scause = "StoreGuestPageFault"
    /\ calls.vmexit_handler = entries

\* C13: prepare_guest_context and prepare_vm_pgtable each run exactly once
\* and have both returned before the first VM entry; every VM entry is
\* followed by exactly one vmexit_handler call before the next one; and the
\* loop enters the guest again if and only if that call returned false.
C13_SingleShotSequenced ==
    /\ [](calls.prepare_guest_context <= 1 /\ calls.prepare_vm_pgtable <= 1)
    /\ []((pc \in {"_run_guest", "vmexit_handler", "while"} \/ entries > 0) =>
            (calls.prepare_guest_context = 1 /\ calls.prepare_vm_pgtable = 1))
    /\ [](pc = "vmexit_handler" => calls.vmexit_handler = entries - 1)
    /\ [](pc \in {"_run_guest", "while", "halted"} =>
            calls.vmexit_handler = entries)
    /\ [][entries' # entries =>
            (/\ entries' = entries + 1
             /\ pc' = "vmexit_handler"
             /\ entries = 0 \/ ret = "false")]_vars
    /\ [][(pc = "while" /\ ret = "false") => pc' = "_run_guest"]_vars
    /\ [][(pc = "while" /\ ret # "false") => pc' = "halted"]_vars

\* C13 witness: the second VM entry has returned and its dispatch is due,
\* after one preparation, one installation and one earlier dispatch
C13_Witness ==
    /\ pc = "vmexit_handler"
    /\ entries = 2
    /\ calls = [prepare_guest_context |-> 1, prepare_vm_pgtable |-> 1,
                vmexit_handler |-> 1]

\* bit b of v is set
TestBit(v, b) == (v \div (2 ^ b)) % 2 = 1

\* C14: at the first VM entry ctx.hstatus equals the live hstatus, with SPV
\* and SPVP set; ctx.sstatus has SPP set; ctx.sepc is VM_ENTRY; and
\* prepare_guest_context changes no hstatus bit other than SPV and SPVP,
\* nor does anything else change hstatus before the first VM entry.
C14_ContextAtFirstEntry ==
    /\ []((pc = "_run_guest" /\ entries = 0) =>
            (/\ ctx.hstatus = csr_hstatus
             /\ TestBit(csr_hstatus, HSTATUS_SPV_BIT)
             /\ TestBit(csr_hstatus, HSTATUS_SPVP_BIT)
             /\ TestBit(ctx.sstatus, SSTATUS_SPP_BIT)
             /\ ctx.sepc = [pn |-> 524800, off |-> 0]))
    /\ [][entries = 0 =>
            \A b \in 0..15 :
               b \notin {HSTATUS_SPV_BIT, HSTATUS_SPVP_BIT} =>
                  (TestBit(csr_hstatus', b) <=> TestBit(csr_hstatus, b))]_vars

\* C14 witness: the first VM entry is due, hstatus was read with bit 6 and
\* SPV set and is now live and in the context with SPVP set as well
C14_Witness ==
    /\ pc = "_run_guest"
    /\ entries = 0
    /\ calls.prepare_guest_context = 1
    /\ csr_hstatus = 2 ^ 6 + 2 ^ HSTATUS_SPV_BIT + 2 ^ HSTATUS_SPVP_BIT
    /\ ctx.hstatus = csr_hstatus

\* C15 (as claimed): a page once backed stays backed, and a guest read of an
\* unbacked address causes exactly one guest page fault: once a load guest
\* page fault has been serviced, the re-executed read raises no further one
\* (checked under SpecDemo, whose guest has a single read).
C15_OneFaultPerRead ==
    /\ [][DOMAIN uspace.pt \subseteq DOMAIN uspace'.pt]_vars
    /\ [][(scause = "LoadGuestPageFault" /\ ret = "false" /\
            entries' = entries + 1) =>
               scause' # "LoadGuestPageFault"]_vars

\* C16 (as claimed): under the demo guest the run ends with the success
\* report, after exactly three traps.
C16_DemoEndsAfterThreeTraps ==
    (pc = "halted" /\ entries > 0) =>
        (halt = "Hypervisor ok!" /\ entries = 3 /\ calls.vmexit_handler = 3)

(***************************************************************************)
(* Properties of EarlyAllocator (under SpecEA).                            *)
(***************************************************************************)
\* C8 (as claimed): after init and any sequence of operations,
\* start <= bytes_pos <= pages_pos <= end.
C8_DoubleEndedLayout ==
    ea_state = "ready" =>
        /\ ea.start <= ea.bytes_pos
        /\ ea.bytes_pos <= ea.pages_pos
        /\ ea.pages_pos <= ea.end

\* C9: while the allocator has not panicked, count is the number of byte
\* allocations not yet deallocated; count = 0 implies bytes_pos = start and
\* used_bytes() = 0; a dealloc that leaves count > 0 leaves bytes_pos alone.
C9_CountTracksLive ==
    /\ [](ea_state # "panicked" =>
            /\ ea.count = Cardinality(Live)
            /\ (ea.count = 0 => (ea.bytes_pos = ea.start /\ used_bytes = 0)))
    /\ [][(Cardinality(Live') < Cardinality(Live) /\ ea'.count > 0) =>
            ea'.bytes_pos = ea.bytes_pos]_vars

\* C9 witness: every allocation, one of them not empty, has been
\* deallocated and the bytes-used area is free again
C9_Witness ==
    /\ ea_state = "ready"
    /\ Len(allocs) >= 2
    /\ \E i \in 1..Len(allocs) : allocs[i].size > 0
    /\ Live = {}
    /\ ea.count = 0
    /\ ea.bytes_pos = ea.start

\* C10 (as claimed): dealloc_pages changes no field, dealloc never changes
\* pages_pos, and no operation after init increases pages_pos or decreases
\* used_pages().
C10_PagesNeverFreed ==
    [][ea_state = "ready" =>
         /\ ea'.pages_pos <= ea.pages_pos
         /\ used_pages' >= used_pages
         /\ (allocs' # allocs => ea'.pages_pos = ea.pages_pos)
         /\ ea'.start = ea.start /\ ea'.end = ea.end]_vars

\* the regions [a, a + an) and [b, b + bn) share no byte
Disjoint(a, an, b, bn) == an = 0 \/ bn = 0 \/ a + an <= b \/ b + bn <= a

\* C17 (as claimed): the regions of the outstanding byte allocations and of
\* the page allocations all lie inside [start, end) and are pairwise
\* disjoint (a request that does not fit is never answered with an address).
C17_DisjointInRange ==
    LET Bytes == {<<allocs[i].ptr, allocs[i].size, "b", i>> : i \in Live}
        Pages == {<<pages[j].pos, pages[j].num_pages * PAGE_SIZE, "p", j>> :
                     j \in 1..Len(pages)}
        All == Bytes \cup Pages
    IN  /\ \A r \in All : ea.start <= r[1] /\ r[1] + r[2] <= ea.end
        /\ \A r, q \in All : r # q => Disjoint(r[1], r[2], q[1], q[2])

\* C18 (as claimed): every address alloc returned is a multiple of the
\* alignment of the layout it was asked with.
C18_AllocAligned ==
    \A i \in 1..Len(allocs) : allocs[i].ptr % allocs[i].align = 0

====
